---- MODULE Spec2Model ----
(***************************************************************************)
(* Model of terrafig: main and buildDependencyGraph (main.go),             *)
(* traverseNode and the DOT serializer (graph.go), the Declaration Locator *)
(* and Reference Extractor (resource.go), the Module Resolver and module   *)
(* directory traversal (module.go) and the path helpers (util.go).         *)
(*                                                                         *)
(* Strings are modelled structurally.  An identifier is the sequence of    *)
(* its "."-separated segments, and a segment is the sequence of its        *)
(* "/"-separated parts, so "module.net/aws_subnet.s" is                    *)
(*   << <<"module">>, <<"net","aws_subnet">>, <<"s">> >>.                  *)
(* Labels and names of the modelled configurations contain neither "."     *)
(* nor "/".  A path is [abs, segs]; the relative path "." has segs = <<>>. *)
(***************************************************************************)
EXTENDS Integers, Sequences, FiniteSets, TLC

\* Largest -depth value the model runs with (maxDepth ranges over 0..MaxDepthBound).
MaxDepthBound == 2

----------------------------------------------------------------------------
\* Generic sequence helpers

Last(s) == s[Len(s)]

Front(s) == SubSeq(s, 1, Len(s) - 1)

RangeOf(s) == {s[i] : i \in 1..Len(s)}

IsPrefixSeq(p, s) == Len(p) <= Len(s) /\ SubSeq(s, 1, Len(p)) = p

\* All orders in which a Go map with key set S can be iterated.
OrdersOf(S) == {p \in [1..Cardinality(S) -> S] : \A i, j \in 1..Cardinality(S) : i # j => p[i] # p[j]}

\* Op applied to the value of v (v is evaluated once)
Bind(v, Op(_)) == CHOOSE r \in {Op(x) : x \in {v}} : TRUE

RECURSIVE Flatten(_)
Flatten(ss) == IF ss = <<>> THEN <<>> ELSE Head(ss) \o Flatten(Tail(ss))

----------------------------------------------------------------------------
\* Identifiers

\* "a.b.c" from the names <<"a","b","c">>
Dot(names) == [i \in 1..Len(names) |-> <<names[i]>>]

\* fmt.Sprintf("%s.%s", a, b)
SprintfDot(a, b) == a \o b

\* fmt.Sprintf("%s/%s", a, b): the last segment of a and the first of b share a "."-segment
SprintfSlash(a, b) == Front(a) \o <<Last(a) \o Head(b)>> \o Tail(b)

\* strings.HasPrefix(id, name + ".")
HasDotPrefix(id, name) == Len(id) >= 2 /\ id[1] = <<name>>

----------------------------------------------------------------------------
\* Paths (util.go, path/filepath)

RelPath(segs) == [abs |-> FALSE, segs |-> segs]

AbsPath(segs) == [abs |-> TRUE, segs |-> segs]

RECURSIVE CleanSegs(_, _, _)
CleanSegs(in, out, abs) ==
    IF in = <<>> THEN out
    ELSE LET h == Head(in) IN
         IF h = "." THEN CleanSegs(Tail(in), out, abs)
         ELSE IF h = ".." /\ out # <<>> /\ Last(out) # ".." THEN CleanSegs(Tail(in), Front(out), abs)
         ELSE IF h = ".." /\ out = <<>> /\ abs THEN CleanSegs(Tail(in), out, abs)
         ELSE CleanSegs(Tail(in), Append(out, h), abs)

\* filepath.Join(base, rel): concatenate, then Clean
FilepathJoin(base, rel) ==
    [abs |-> base.abs, segs |-> CleanSegs(base.segs \o rel.segs, <<>>, base.abs)]

resolvePath(basePath, relativePath) ==
    IF relativePath.abs THEN relativePath
    ELSE FilepathJoin(basePath, relativePath)

----------------------------------------------------------------------------
\* Configuration syntax as delivered by the HCL front end

\* hcl.TraverseRoot / hcl.TraverseAttr / hcl.TraverseIndex
TRoot(n) == [k |-> "root", name |-> n, keyType |-> "none"]

TAttr(n) == [k |-> "attr", name |-> n, keyType |-> "none"]

TIndex(keyType, key) == [k |-> "index", name |-> key, keyType |-> keyType]

\* the traversal of the expression a.b.c
Trav(names) == <<TRoot(names[1])>> \o [i \in 1..(Len(names) - 1) |-> TAttr(names[i + 1])]

\* Outcome of attr.Expr.Value(nil): a string literal, another literal, or error diagnostics
StrVal(path) == [k |-> "string", path |-> path]

OtherVal == [k |-> "number", path |-> RelPath(<<>>)]

NoVal == [k |-> "error", path |-> RelPath(<<>>)]

Attribute(name, vars, val) == [name |-> name, vars |-> vars, val |-> val]

\* an attribute whose expression mentions the given variables
Arg(name, vars) == Attribute(name, vars, IF vars = <<>> THEN OtherVal ELSE NoVal)

Block(type, labels, attrs) == [type |-> type, labels |-> labels, attrs |-> attrs]

File(dir, name, isTf, parseOk, blocks) ==
    [dir |-> dir, name |-> name, isTf |-> isTf, parseOk |-> parseOk, blocks |-> blocks]

\* Block types accepted by the three hcl.BodySchema values; Body.Content reports an
\* error diagnostic for every block whose type is not in the schema.
LocatorSchema == {"resource", "module", "data", "variable", "output", "provider", "terraform", "locals"}

ModuleSchema == {"module"}

ModuleDirSchema == {"resource", "data", "module", "output"}

\* ParseHCLFile succeeded and Body.Content(schema) reported no errors
ContentOk(file, schema) == file.parseOk /\ \A i \in 1..Len(file.blocks) : file.blocks[i].type \in schema

----------------------------------------------------------------------------
\* Reference Extractor (resource.go)

getBlockID(block) ==
    CASE block.type = "resource" -> Dot(<<block.labels[1], block.labels[2]>>)
      [] block.type = "module" -> Dot(<<"module", block.labels[1]>>)
      [] block.type = "data" -> Dot(<<"data", block.labels[1], block.labels[2]>>)
      [] block.type = "output" -> Dot(<<"output", block.labels[1]>>)
      [] OTHER -> <<>>

\* The names collected by the type switch over the traversers
RECURSIVE traversalParts(_)
traversalParts(traversal) ==
    IF traversal = <<>> THEN <<>>
    ELSE LET t == Head(traversal) IN
         (CASE t.k = "root" -> <<t.name>>
            [] t.k = "attr" -> <<t.name>>
            [] t.k = "index" -> IF t.keyType = "string" THEN <<t.name>> ELSE <<>>
            [] OTHER -> <<>>)
         \o traversalParts(Tail(traversal))

\* strings.Join(parts, ".")
traversalToReference(traversal) == Dot(traversalParts(traversal))

RefIDs(slice) == [i \in 1..Len(slice) |-> slice[i].ID]

appendUniqueReference_Always(slice, element) == Append(slice, element)

appendUniqueReference(slice, element) ==
    IF \E i \in 1..Len(slice) : slice[i].ID = element.ID THEN slice
    ELSE Append(slice, element)

\* a switch with a further case for locals
Classify_Local(prefix) ==
    CASE prefix = <<"var">> -> "variable"
      [] prefix = <<"module">> -> "module"
      [] prefix = <<"data">> -> "data"
      [] prefix = <<"local">> -> "local"
      [] OTHER -> "resource"

\* the switch on parts[0]
Classify(prefix) ==
    CASE prefix = <<"var">> -> "variable"
      [] prefix = <<"module">> -> "module"
      [] prefix = <<"data">> -> "data"
      [] OTHER -> "resource"

EmptyRefs == [c \in {} |-> <<>>]

RefsOf(refs, category) == IF category \in DOMAIN refs THEN refs[category] ELSE <<>>

\* The reference strings in the order the two nested loops visit them, for an
\* iteration order of the attribute map.
RawRefs(block, order) ==
    Flatten([i \in 1..Len(order) |->
        [j \in 1..Len(block.attrs[order[i]].vars) |->
            traversalToReference(block.attrs[order[i]].vars[j])]])

\* refs[category] = appendUniqueReference(refs[category], reference)
SetCategory(refs, category, reference) ==
    [c \in DOMAIN refs \cup {category} |->
        IF c = category THEN appendUniqueReference(RefsOf(refs, category), reference) ELSE refs[c]]

\* One turn of the inner loop body (resource.go:95-120).  The map is bound once, as
\* a value, before it is updated.
AddRef(refs, ref, filePath) ==
    IF Len(ref) < 2 THEN refs
    ELSE CHOOSE out \in {SetCategory(m, Classify(ref[1]), [ID |-> ref, Path |-> filePath]) : m \in {refs}} : TRUE

RECURSIVE AddRefs(_, _, _)
AddRefs(refs, raw, filePath) ==
    IF raw = <<>> THEN refs
    ELSE AddRefs(AddRef(refs, Head(raw), filePath), Tail(raw), filePath)

extractReferences(block, filePath, order) == AddRefs(EmptyRefs, RawRefs(block, order), filePath)

\* Iteration orders of block.Body.JustAttributes()
AttrOrders(block) == OrdersOf(1..Len(block.attrs))

----------------------------------------------------------------------------
\* Configurations the model runs on.  files are listed in filepath.Walk order
\* (lexical, directories descended in place); dirs are the existing directories,
\* both relative to the directory named by -path.

V(names) == <<Trav(names)>>

CycleConfig ==
    [dirs |-> {<<>>},
     files |-> <<
        File(<<>>, "main.tf", TRUE, TRUE, <<
            Block("resource", <<"aws_a", "x">>, <<
                Arg("depends_on", V(<<"aws_b", "y">>)),
                Arg("ami", V(<<"var", "ami">>))>>),
            Block("resource", <<"aws_b", "y">>, <<
                Arg("depends_on", V(<<"aws_a", "x">>))>>)>>)>>,
     targets |-> {[type |-> "aws_a", name |-> <<"x">>], [type |-> "aws_a", name |-> <<"none">>]}]

AttrConfig ==
    [dirs |-> {<<>>},
     files |-> <<
        File(<<>>, "README.md", FALSE, FALSE, <<>>),
        File(<<>>, "broken.tf", TRUE, FALSE, <<
            Block("resource", <<"aws_instance", "web">>, <<>>)>>),
        File(<<>>, "main.tf", TRUE, TRUE, <<
            Block("variable", <<"ami">>, <<>>),
            Block("resource", <<"aws_instance", "web">>, <<
                Arg("ami", <<Trav(<<"data", "aws_ami", "latest", "id">>), Trav(<<"var", "ami">>)>>),
                Arg("subnet", <<
                    Trav(<<"aws_instance", "foo", "id">>),
                    Trav(<<"foo">>),
                    <<TRoot("aws_instance"), TAttr("foo"), TIndex("number", "0"), TAttr("id")>>,
                    <<TRoot("var"), TAttr("m"), TIndex("string", "k")>>,
                    Trav(<<"local", "x">>),
                    Trav(<<"each", "value">>),
                    Trav(<<"var", "ami">>)>>)>>),
            Block("resource", <<"aws_instance", "web2">>, <<
                Arg("depends_on", <<Trav(<<"aws_instance", "foo">>), Trav(<<"data", "aws_ami", "latest">>)>>),
                Arg("subnet", V(<<"aws_instance", "foo", "id">>))>>),
            Block("resource", <<"aws_instance", "web3">>, <<
                Arg("ami", <<Trav(<<"var", "ami">>), Trav(<<"data", "aws_ami", "latest">>)>>)>>),
            Block("resource", <<"aws_instance", "foo">>, <<>>),
            Block("data", <<"aws_ami", "latest">>, <<
                Arg("owner", V(<<"var", "owner">>))>>)>>)>>,
     targets |-> {[type |-> "aws_instance", name |-> <<"web">>], [type |-> "aws_instance", name |-> <<"web2">>],
                  [type |-> "aws_instance", name |-> <<"web3">>]}]

ModuleConfig ==
    [dirs |-> {<<>>, <<"modules">>, <<"modules", "net">>},
     files |-> <<
        File(<<>>, "main.tf", TRUE, TRUE, <<
            Block("resource", <<"aws_instance", "r">>, <<
                Arg("subnet", V(<<"module", "net">>)),
                Arg("ami", V(<<"var", "ami">>))>>),
            Block("resource", <<"aws_instance", "r2">>, <<
                Arg("subnet", V(<<"module", "net", "id">>))>>),
            Block("resource", <<"aws_instance", "r3">>, <<
                Arg("a", V(<<"module", "net", "a">>)),
                Arg("depends_on", V(<<"aws_instance", "mid">>))>>),
            Block("resource", <<"aws_instance", "mid">>, <<
                Arg("b", V(<<"module", "net", "b">>))>>)>>),
        File(<<"modules", "net">>, "main.tf", TRUE, TRUE, <<
            Block("resource", <<"aws_subnet", "s">>, <<
                Arg("cidr", V(<<"var", "cidr">>)),
                Arg("depends_on", V(<<"aws_vpc", "v">>))>>),
            Block("resource", <<"aws_vpc", "v">>, <<>>)>>),
        File(<<>>, "modules.tf", TRUE, TRUE, <<
            Block("module", <<"net">>, <<
                Attribute("source", <<>>, StrVal(RelPath(<<".", "modules", "net">>))),
                Arg("cidr", V(<<"var", "cidr">>))>>)>>)>>,
     targets |-> {[type |-> "aws_instance", name |-> <<"r">>], [type |-> "aws_instance", name |-> <<"r2">>],
                  [type |-> "aws_instance", name |-> <<"r3">>],
                  [type |-> "module", name |-> <<"net">>], [type |-> "module", name |-> <<"net", "id">>],
                  [type |-> "aws_subnet", name |-> <<"s">>]}]

\* module "net" shares its file with a resource; module "db" has a directory whose
\* file also declares a variable
MixedFileConfig ==
    [dirs |-> {<<>>, <<"modules">>, <<"modules", "db">>, <<"modules", "net">>},
     files |-> <<
        File(<<>>, "main.tf", TRUE, TRUE, <<
            Block("resource", <<"aws_instance", "r">>, <<
                Arg("subnet", V(<<"module", "net">>)),
                Arg("db", V(<<"module", "db">>))>>),
            Block("module", <<"net">>, <<
                Attribute("source", <<>>, StrVal(RelPath(<<".", "modules", "net">>)))>>)>>),
        File(<<>>, "mods.tf", TRUE, TRUE, <<
            Block("module", <<"db">>, <<
                Attribute("source", <<>>, StrVal(RelPath(<<".", "modules", "db">>)))>>)>>),
        File(<<"modules", "db">>, "main.tf", TRUE, TRUE, <<
            Block("variable", <<"size">>, <<>>),
            Block("resource", <<"aws_db", "d">>, <<
                Arg("size", V(<<"var", "size">>))>>)>>),
        File(<<"modules", "net">>, "main.tf", TRUE, TRUE, <<
            Block("resource", <<"aws_subnet", "s">>, <<
                Arg("cidr", V(<<"var", "cidr">>))>>)>>)>>,
     targets |-> {[type |-> "aws_instance", name |-> <<"r">>], [type |-> "module", name |-> <<"db">>]}]

\* a module whose source points back at the directory that declares it
SelfModuleConfig ==
    [dirs |-> {<<>>},
     files |-> <<
        File(<<>>, "main.tf", TRUE, TRUE, <<
            Block("resource", <<"aws_a", "x">>, <<
                Arg("depends_on", V(<<"module", "self">>))>>)>>),
        File(<<>>, "mods.tf", TRUE, TRUE, <<
            Block("module", <<"self">>, <<
                Attribute("source", <<>>, StrVal(RelPath(<<".">>))),
                Arg("x", V(<<"aws_a", "x">>))>>)>>)>>,
     targets |-> {[type |-> "aws_a", name |-> <<"x">>], [type |-> "module", name |-> <<"self">>]}]

\* module calls whose source attribute is not usable
BadSourceConfig ==
    [dirs |-> {<<>>},
     files |-> <<
        File(<<>>, "main.tf", TRUE, TRUE, <<
            Block("resource", <<"aws_a", "ok">>, <<
                Arg("a", V(<<"module", "reg">>)),
                Arg("b", <<Trav(<<"module", "gone">>), Trav(<<"module", "dyn", "id">>), Trav(<<"module", "nosrc">>)>>)>>),
            Block("resource", <<"aws_a", "bad">>, <<
                Arg("a", V(<<"module", "num">>))>>),
            Block("resource", <<"aws_a", "mix">>, <<
                Arg("a", V(<<"module", "num">>)),
                Arg("b", V(<<"aws_a", "ok">>))>>)>>),
        File(<<>>, "mods.tf", TRUE, TRUE, <<
            Block("module", <<"dyn">>, <<
                Attribute("source", V(<<"var", "src">>), NoVal)>>),
            Block("module", <<"gone">>, <<
                Attribute("source", <<>>, StrVal(RelPath(<<".", "missing">>)))>>),
            Block("module", <<"nosrc">>, <<>>),
            Block("module", <<"num">>, <<
                Attribute("source", <<>>, OtherVal)>>),
            Block("module", <<"reg">>, <<
                Attribute("source", <<>>, StrVal(RelPath(<<"registry.example.com", "ns", "net">>)))>>)>>)>>,
     targets |-> {[type |-> "aws_a", name |-> <<"ok">>], [type |-> "aws_a", name |-> <<"bad">>],
                  [type |-> "aws_a", name |-> <<"mix">>],
                  [type |-> "module", name |-> <<"num">>], [type |-> "module", name |-> <<"reg">>]}]

\* aws_d.c is referenced by the target directly and through aws_d.b
DiamondConfig ==
    [dirs |-> {<<>>},
     files |-> <<
        File(<<>>, "main.tf", TRUE, TRUE, <<
            Block("resource", <<"aws_d", "a">>, <<
                Arg("first", V(<<"aws_d", "b">>)),
                Arg("second", V(<<"aws_d", "c">>))>>),
            Block("resource", <<"aws_d", "b">>, <<
                Arg("depends_on", V(<<"aws_d", "c">>))>>),
            Block("resource", <<"aws_d", "c">>, <<
                Arg("depends_on", V(<<"aws_d", "d">>))>>),
            Block("resource", <<"aws_d", "d">>, <<>>)>>)>>,
     targets |-> {[type |-> "aws_d", name |-> <<"a">>]}]

\* aws_x.dup is declared four times: in a file that does not parse, twice in
\* b_main.tf and once more in c_more.tf; d_moved.tf parses but holds a block type
\* the Locator's schema does not list
LocatorConfig ==
    [dirs |-> {<<>>},
     files |-> <<
        File(<<>>, "a_broken.tf", TRUE, FALSE, <<
            Block("resource", <<"aws_x", "dup">>, <<
                Arg("a", V(<<"var", "zero">>))>>)>>),
        File(<<>>, "b_main.tf", TRUE, TRUE, <<
            Block("terraform", <<>>, <<>>),
            Block("provider", <<"aws">>, <<>>),
            Block("variable", <<"v">>, <<>>),
            Block("locals", <<>>, <<>>),
            Block("resource", <<"aws_x", "dup">>, <<
                Arg("a", V(<<"var", "one">>))>>),
            Block("resource", <<"aws_x", "dup">>, <<
                Arg("a", V(<<"var", "two">>))>>),
            Block("output", <<"o">>, <<
                Arg("value", V(<<"aws_x", "dup">>))>>)>>),
        File(<<>>, "c_more.tf", TRUE, TRUE, <<
            Block("resource", <<"aws_x", "dup">>, <<
                Arg("a", V(<<"var", "three">>))>>),
            Block("data", <<"aws_y", "d">>, <<>>)>>),
        File(<<>>, "d_moved.tf", TRUE, TRUE, <<
            Block("moved", <<>>, <<>>),
            Block("resource", <<"aws_x", "only">>, <<>>)>>)>>,
     targets |-> {[type |-> "aws_x", name |-> <<"dup">>], [type |-> "aws_x", name |-> <<"only">>],
                  [type |-> "output", name |-> <<"o">>], [type |-> "data", name |-> <<"aws_y", "d">>],
                  [type |-> "var", name |-> <<"v">>], [type |-> "provider", name |-> <<"aws">>]}]

Configs ==
    <<CycleConfig, AttrConfig, ModuleConfig, MixedFileConfig, SelfModuleConfig, BadSourceConfig, DiamondConfig,
      LocatorConfig>>

\* Values of filepath.Dir(*path): ".", "infra" and "/srv/tf"
BasePaths == {RelPath(<<>>), RelPath(<<"infra">>), AbsPath(<<"srv", "tf">>)}

----------------------------------------------------------------------------
VARIABLES
    cfg,            \* index of the configuration on disk
    basePath,       \* main: filepath.Dir(*path)
    target,         \* main: *resourceType and *resourceName
    maxDepth,       \* graph.MaxDepth
    Nodes,          \* graph.Nodes
    processedNodes, \* the visited set of buildDependencyGraph
    stack,          \* the call stack of traverseNode / traverseModuleDirectory activations
    pc,             \* "main", "traverse", "built" (buildDependencyGraph has returned), "panic" or "exit"
    last,           \* history: the step taken last
    lookups,        \* history: number of findResourceNode and findModuleNode calls so far
    rawOf,          \* history: per graph key, the raw reference strings its References were built from
    pathArg,        \* main: *path is "" (flag not given), names a "file" or names an "absent" file
    format,         \* main: *format
    outFile,        \* the lines of the file named by -output, NoFile while it is not written
    exitCode,       \* the exit status of the process, Running while it has not ended
    tooDeep         \* history: identifiers a traverseNode call returned on for their depth alone

vars == <<cfg, basePath, target, maxDepth, Nodes, processedNodes, stack, pc, last, lookups, rawOf,
          pathArg, format, outFile, exitCode, tooDeep>>

\* what main reads from the command line and the disk; no step changes it
inputs == <<cfg, basePath, target, maxDepth, pathArg, format>>

Cfg == Configs[cfg]

\* main: targetID := fmt.Sprintf("%s.%s", *resourceType, *resourceName)
targetID == SprintfDot(<<<<target.type>>>>, Dot(target.name))

----------------------------------------------------------------------------
\* File system (util.go)

\* The part of path p below the directory named by -path; p is outside it otherwise.
ProjectRel(p) ==
    IF p.abs = basePath.abs /\ IsPrefixSeq(basePath.segs, p.segs)
    THEN SubSeq(p.segs, Len(basePath.segs) + 1, Len(p.segs))
    ELSE <<"..">>

\* os.Stat(p) succeeds
DirExists(p) == ProjectRel(p) \in Cfg.dirs

FilePath(f) == [abs |-> basePath.abs, segs |-> basePath.segs \o f.dir \o <<f.name>>]

\* filepath.Walk visits every file below dir, subdirectories included; a walk error
\* (dir missing) yields the empty list.
findTerraformFiles(dir) ==
    IF ~DirExists(dir) THEN <<>>
    ELSE SelectSeq(Cfg.files, LAMBDA f : f.isTf /\ IsPrefixSeq(ProjectRel(dir), f.dir))

\* The (block, file) pairs of the files that pass ParseHCLFile and Body.Content
\* for a schema, in scan order.
BlocksOf(file, schema) ==
    IF ContentOk(file, schema)
    THEN [j \in 1..Len(file.blocks) |-> [block |-> file.blocks[j], file |-> FilePath(file)]]
    ELSE <<>>

ScannedBlocks(files, schema) ==
    Bind(files, LAMBDA fs : Flatten([i \in 1..Len(fs) |-> BlocksOf(fs[i], schema)]))

----------------------------------------------------------------------------
\* Declaration Locator (resource.go)

NotFound == [found |-> FALSE]

RECURSIVE findNodeInBlocks(_, _)
findNodeInBlocks(blocks, nodeID) ==
    IF blocks = <<>> THEN NotFound
    ELSE IF getBlockID(Head(blocks).block) = nodeID
         THEN [found |-> TRUE, block |-> Head(blocks).block, file |-> Head(blocks).file]
         ELSE findNodeInBlocks(Tail(blocks), nodeID)

\* The first matching block over all scanned files (the per-file loop of
\* findResourceNode around findNodeInBlocks).
findResourceNode(dir, nodeID) ==
    Bind(ScannedBlocks(findTerraformFiles(dir), LocatorSchema), LAMBDA blocks : findNodeInBlocks(blocks, nodeID))

\* The Node literal built for a matching block, for an attribute iteration order
NodeOf(id, block, file, order, depth) ==
    [ID |-> id, Type |-> block.type, Name |-> Last(block.labels), Path |-> file,
     References |-> extractReferences(block, file, order), Depth |-> depth]

----------------------------------------------------------------------------
\* Module Resolver (module.go)

SourceAttrs(block) == SelectSeq(block.attrs, LAMBDA a : a.name = "source")

\* strings.HasPrefix(sourcePath, ".")
HasRelativePrefix(sourcePath) == sourcePath.segs # <<>> /\ Head(sourcePath.segs) \in {".", ".."}

\* findModuleNode's scan: "found" with the resolved directory, "none", or "panic"
\* when cty.Value.AsString is applied to a value that is not a string.
RECURSIVE scanModuleBlocks(_, _, _)
scanModuleBlocks(blocks, dir, moduleName) ==
    IF blocks = <<>> THEN [outcome |-> "none"]
    ELSE LET b == Head(blocks).block
             src == SourceAttrs(b)
             next == scanModuleBlocks(Tail(blocks), dir, moduleName)
         IN IF ~(b.type = "module" /\ <<b.labels[1]>> = moduleName) THEN next
            ELSE IF src = <<>> THEN next
            ELSE IF src[1].val.k = "error" THEN next
            ELSE IF src[1].val.k # "string" THEN [outcome |-> "panic"]
            ELSE IF ~HasRelativePrefix(src[1].val.path) THEN next
            ELSE LET absolutePath == FilepathJoin(dir, src[1].val.path) IN
                 IF DirExists(absolutePath)
                 THEN [outcome |-> "found", path |-> absolutePath, block |-> b, file |-> Head(blocks).file]
                 ELSE next

findModuleNode(dir, moduleID) ==
    LET trimmed == IF HasDotPrefix(moduleID, "module") THEN Tail(moduleID) ELSE moduleID
        moduleName == Head(trimmed)
    IN Bind(ScannedBlocks(findTerraformFiles(dir), ModuleSchema),
            LAMBDA blocks : scanModuleBlocks(blocks, dir, moduleName))

\* a module name cut at the "/" as well
ModuleIDOf_FirstPart(nodeID) == <<<<"module">>, <<nodeID[2][1]>>>>

\* traverseNode: fmt.Sprintf("module.%s", strings.Split(nodeID, ".")[1])
ModuleIDOf(nodeID) == <<<<"module">>, nodeID[2]>>

----------------------------------------------------------------------------
\* Graph Traverser (graph.go, module.go) as a machine over an explicit call stack

Frame(kind, base, id, depth, at, blocks, todo) ==
    [kind |-> kind, base |-> base, id |-> id, depth |-> depth, at |-> at, blocks |-> blocks, todo |-> todo]

\* a fresh traverseNode(graph, base, id, depth, processedNodes) activation
Call(base, id, depth) == Frame("traverseNode", base, id, depth, "guard", <<>>, <<>>)

Top == stack[Len(stack)]

AtTop(kind, at) == pc = "traverse" /\ stack # <<>> /\ Top.kind = kind /\ Top.at = at

SetTop(f) == [stack EXCEPT ![Len(stack)] = f]

MapPut(m, k, v) == [x \in DOMAIN m \cup {k} |-> IF x = k THEN v ELSE m[x]]

\* the activation on top returns to its caller
Return ==
    /\ stack' = Front(stack)
    /\ pc' = IF Len(stack) = 1 THEN "built" ELSE pc

\* a guard that only bounds the depth
GuardPasses_DepthOnly(depth, nodeID) == ~(depth > maxDepth)

\* a guard that only tests the visited set
GuardPasses_VisitedOnly(depth, nodeID) == nodeID \notin processedNodes

\* graph.go:11, negated: the call goes on past the guard
GuardPasses(depth, nodeID) == ~(depth > maxDepth \/ nodeID \in processedNodes)

\* graph.go:52: the depth a reference of a located node is traversed at
ChildDepth_Same(depth) == depth

ChildDepth(depth) == depth + 1

\* a test that lets "local." references through
IsTerminalRef_VarOnly(refID) == HasDotPrefix(refID, "var")

\* references the loops do not recurse into
IsTerminalRef(refID) == HasDotPrefix(refID, "var") \/ HasDotPrefix(refID, "local")

\* The reference identifiers in the order "for category, refs := range m" followed
\* by "for _, ref := range refs" can visit them: any order of the categories.
RefOrderings(refs) ==
    {Flatten([i \in 1..Len(o) |-> RefIDs(refs[o[i]])]) : o \in OrdersOf(DOMAIN refs)}

\* -type or -name left empty
IncompleteTargets == {[type |-> "", name |-> <<"x">>], [type |-> "aws_a", name |-> <<>>]}

\* the output file has not been written
NoFile == <<>>

Init ==
    /\ cfg \in 1..Len(Configs)
    /\ basePath \in BasePaths
    /\ target \in Configs[cfg].targets \cup IncompleteTargets
    /\ maxDepth \in 0..MaxDepthBound
    /\ pathArg \in {"", "file", "absent"}
    /\ format \in {"dot", "json"}
    /\ outFile = NoFile
    /\ exitCode = 0
    /\ tooDeep = {}
    /\ Nodes = <<>>
    /\ processedNodes = {}
    /\ stack = <<>>
    /\ pc = "main"
    /\ last = "init"
    /\ lookups = 0
    /\ rawOf = <<>>

\* main.go:19: *path == "" || *resourceType == "" || *resourceName == ""
ArgumentMissing == pathArg = "" \/ target.type = "" \/ target.name = <<>>

\* main.go:19-23: os.Exit(1)
MissingArgument ==
    /\ pc = "main"
    /\ ArgumentMissing
    /\ pc' = "exit"
    /\ exitCode' = 1
    /\ last' = "missingArgument"
    /\ UNCHANGED <<inputs, outFile, tooDeep, Nodes, processedNodes, stack, lookups, rawOf>>

\* main.go:25-28: os.Stat(*path) reports that the file does not exist; os.Exit(1)
PathNotExist ==
    /\ pc = "main"
    /\ ~ArgumentMissing
    /\ pathArg = "absent"
    /\ pc' = "exit"
    /\ exitCode' = 1
    /\ last' = "pathNotExist"
    /\ UNCHANGED <<inputs, outFile, tooDeep, Nodes, processedNodes, stack, lookups, rawOf>>

\* main.go:30-37 and 55-57: the graph and the visited set are made and the target traversed
buildDependencyGraph ==
    /\ pc = "main"
    /\ ~ArgumentMissing
    /\ pathArg = "file"
    /\ stack' = <<Call(basePath, targetID, 0)>>
    /\ pc' = "traverse"
    /\ last' = "buildDependencyGraph"
    /\ UNCHANGED <<inputs, outFile, exitCode, tooDeep, Nodes, processedNodes, lookups, rawOf>>

\* a guard that marks the identifier before it tests the depth
TraverseReturn_Marking ==
    /\ AtTop("traverseNode", "guard")
    /\ ~GuardPasses(Top.depth, Top.id)
    /\ Return
    /\ processedNodes' = processedNodes \cup {Top.id}
    /\ last' = IF Top.id \in processedNodes THEN "returnVisited" ELSE "returnDepth"
    /\ tooDeep' = IF Top.id \in processedNodes THEN tooDeep ELSE tooDeep \cup {Top.id}
    /\ UNCHANGED <<inputs, outFile, exitCode, Nodes, lookups, rawOf>>

\* graph.go:11-13
TraverseReturn ==
    /\ AtTop("traverseNode", "guard")
    /\ ~GuardPasses(Top.depth, Top.id)
    /\ Return
    /\ last' = IF Top.id \in processedNodes THEN "returnVisited" ELSE "returnDepth"
    /\ tooDeep' = IF Top.id \in processedNodes THEN tooDeep ELSE tooDeep \cup {Top.id}
    /\ UNCHANGED <<inputs, outFile, exitCode, Nodes, processedNodes, lookups, rawOf>>

\* graph.go:15-18
TraverseMark ==
    /\ AtTop("traverseNode", "guard")
    /\ GuardPasses(Top.depth, Top.id)
    /\ processedNodes' = processedNodes \cup {Top.id}
    /\ stack' = SetTop([Top EXCEPT !.at = IF HasDotPrefix(Top.id, "module") THEN "module" ELSE "locate"])
    /\ last' = "mark"
    /\ UNCHANGED <<inputs, outFile, exitCode, tooDeep, Nodes, pc, lookups, rawOf>>

\* graph.go:19-35: the module resolves; its node is stored and its directory entered
ModuleFound ==
    /\ AtTop("traverseNode", "module")
    /\ \E r \in {findModuleNode(Top.base, ModuleIDOf(Top.id))} :
          /\ r.outcome = "found"
          /\ \E order \in AttrOrders(r.block) :
             \E moduleNode \in {NodeOf(ModuleIDOf(Top.id), r.block, r.file, order, Top.depth)} :
             \E moduleSourcePath \in {resolvePath(Top.base, r.path)} :
                /\ Nodes' = MapPut(Nodes, Top.id, moduleNode)
                /\ rawOf' = MapPut(rawOf, Top.id, RawRefs(r.block, order))
                /\ stack' = Append(SetTop([Top EXCEPT !.at = "locate"]),
                     Frame("traverseModuleDirectory", moduleSourcePath, ModuleIDOf(Top.id), Top.depth, "blocks",
                           ScannedBlocks(findTerraformFiles(moduleSourcePath), ModuleDirSchema), <<>>))
    /\ lookups' = lookups + 1
    /\ last' = "moduleFound"
    /\ UNCHANGED <<inputs, outFile, exitCode, tooDeep, processedNodes, pc>>

\* graph.go:36-38
ModuleNotFound ==
    /\ AtTop("traverseNode", "module")
    /\ findModuleNode(Top.base, ModuleIDOf(Top.id)).outcome = "none"
    /\ stack' = SetTop([Top EXCEPT !.at = "locate"])
    /\ lookups' = lookups + 1
    /\ last' = "moduleNotFound"
    /\ UNCHANGED <<inputs, outFile, exitCode, tooDeep, Nodes, processedNodes, pc, rawOf>>

\* module.go:72: sourceVal.AsString() on a non-string value ends the process
ModulePanic ==
    /\ AtTop("traverseNode", "module")
    /\ findModuleNode(Top.base, ModuleIDOf(Top.id)).outcome = "panic"
    /\ pc' = "panic"
    /\ exitCode' = 2        \* the Go runtime ends a panicking process with status 2
    /\ lookups' = lookups + 1
    /\ last' = "panic"
    /\ UNCHANGED <<inputs, outFile, tooDeep, Nodes, processedNodes, stack, rawOf>>

\* graph.go:41-44
LocateMiss ==
    /\ AtTop("traverseNode", "locate")
    /\ ~findResourceNode(Top.base, Top.id).found
    /\ Return
    /\ lookups' = lookups + 1
    /\ last' = "locateMiss"
    /\ UNCHANGED <<inputs, outFile, exitCode, tooDeep, Nodes, processedNodes, rawOf>>

\* graph.go:41-49
LocateFound ==
    /\ AtTop("traverseNode", "locate")
    /\ \E r \in {findResourceNode(Top.base, Top.id)} :
          /\ r.found
          /\ \E order \in AttrOrders(r.block) :
             \E node \in {NodeOf(getBlockID(r.block), r.block, r.file, order, Top.depth)} :
                /\ Nodes' = MapPut(Nodes, Top.id, node)
                /\ rawOf' = MapPut(rawOf, Top.id, RawRefs(r.block, order))
                /\ \E todo \in RefOrderings(node.References) :
                      stack' = SetTop([Top EXCEPT !.at = "loop", !.todo = todo])
    /\ lookups' = lookups + 1
    /\ last' = "locateFound"
    /\ UNCHANGED <<inputs, outFile, exitCode, tooDeep, processedNodes, pc>>

\* graph.go:50-53: the next reference is recursed into
LoopCall ==
    /\ AtTop("traverseNode", "loop")
    /\ Top.todo # <<>>
    /\ ~IsTerminalRef(Head(Top.todo))
    /\ stack' = Append(SetTop([Top EXCEPT !.todo = Tail(Top.todo)]),
                       Call(Top.base, Head(Top.todo), ChildDepth(Top.depth)))
    /\ last' = "loopCall"
    /\ UNCHANGED <<inputs, outFile, exitCode, tooDeep, Nodes, processedNodes, pc, lookups, rawOf>>

\* graph.go:51: a "var." or "local." reference is passed over
LoopSkip ==
    /\ AtTop("traverseNode", "loop")
    /\ Top.todo # <<>>
    /\ IsTerminalRef(Head(Top.todo))
    /\ stack' = SetTop([Top EXCEPT !.todo = Tail(Top.todo)])
    /\ last' = "loopSkip"
    /\ UNCHANGED <<inputs, outFile, exitCode, tooDeep, Nodes, processedNodes, pc, lookups, rawOf>>

\* graph.go:57
LoopDone ==
    /\ AtTop("traverseNode", "loop")
    /\ Top.todo = <<>>
    /\ Return
    /\ last' = "loopDone"
    /\ UNCHANGED <<inputs, outFile, exitCode, tooDeep, Nodes, processedNodes, lookups, rawOf>>

\* module.go:139-156: the next block of the module directory is registered
ProcessModuleBlock ==
    /\ AtTop("traverseModuleDirectory", "blocks")
    /\ Top.blocks # <<>>
    /\ \E b \in {Head(Top.blocks)} :
       \E currentID \in {getBlockID(b.block)} :
          IF currentID = <<>>
          THEN /\ stack' = SetTop([Top EXCEPT !.blocks = Tail(Top.blocks)])
               /\ UNCHANGED <<Nodes, rawOf>>
          ELSE \E order \in AttrOrders(b.block) :
               \E moduleResourceNode \in {NodeOf(SprintfSlash(Top.id, currentID), b.block, b.file, order,
                                                 Top.depth + 1)} :
                  /\ Nodes' = MapPut(Nodes, moduleResourceNode.ID, moduleResourceNode)
                  /\ rawOf' = MapPut(rawOf, moduleResourceNode.ID, RawRefs(b.block, order))
                  /\ \E todo \in RefOrderings(moduleResourceNode.References) :
                        stack' = SetTop([Top EXCEPT !.at = "refs", !.blocks = Tail(Top.blocks), !.todo = todo])
    /\ last' = "processModuleBlock"
    /\ UNCHANGED <<inputs, outFile, exitCode, tooDeep, processedNodes, pc, lookups>>

\* module.go:163-167: a module-internal reference is recursed into under its namespaced name
ModuleRefCall ==
    /\ AtTop("traverseModuleDirectory", "refs")
    /\ Top.todo # <<>>
    /\ ~IsTerminalRef(Head(Top.todo))
    /\ LET moduleRef == SprintfSlash(Top.id, Head(Top.todo)) IN
          /\ moduleRef \notin processedNodes
          /\ stack' = Append(SetTop([Top EXCEPT !.todo = Tail(Top.todo)]),
                             Call(Top.base, moduleRef, Top.depth + 1))
    /\ last' = "moduleRefCall"
    /\ UNCHANGED <<inputs, outFile, exitCode, tooDeep, Nodes, processedNodes, pc, lookups, rawOf>>

\* module.go:163-165: a terminal or already processed reference is passed over
ModuleRefSkip ==
    /\ AtTop("traverseModuleDirectory", "refs")
    /\ Top.todo # <<>>
    /\ \/ IsTerminalRef(Head(Top.todo))
       \/ SprintfSlash(Top.id, Head(Top.todo)) \in processedNodes
    /\ stack' = SetTop([Top EXCEPT !.todo = Tail(Top.todo)])
    /\ last' = "moduleRefSkip"
    /\ UNCHANGED <<inputs, outFile, exitCode, tooDeep, Nodes, processedNodes, pc, lookups, rawOf>>

\* module.go:171: processModuleReferences returns to the block loop
ModuleRefsDone ==
    /\ AtTop("traverseModuleDirectory", "refs")
    /\ Top.todo = <<>>
    /\ stack' = SetTop([Top EXCEPT !.at = "blocks"])
    /\ last' = "moduleRefsDone"
    /\ UNCHANGED <<inputs, outFile, exitCode, tooDeep, Nodes, processedNodes, pc, lookups, rawOf>>

\* module.go:107-110, 136: no file or no block is left
ModuleDirReturn ==
    /\ AtTop("traverseModuleDirectory", "blocks")
    /\ Top.blocks = <<>>
    /\ Return
    /\ last' = "moduleDirReturn"
    /\ UNCHANGED <<inputs, outFile, exitCode, tooDeep, Nodes, processedNodes, lookups, rawOf>>

----------------------------------------------------------------------------
\* Serializer (graph.go) and the end of main

\* One line of the output.  text holds the literal part: the whole line for a fixed
\* line, the colour for a node line, the style for an edge.
Line(kind, text, id, path, to) == [kind |-> kind, text |-> text, id |-> id, path |-> path, to |-> to]

Text(text) == Line("text", text, <<>>, RelPath(<<>>), <<>>)

\* "<id>" [label="<id>\n(<path>)", color=red];
HighlightLine(id, path) == Line("node", "color=red", id, path, <<>>)

\* "<id>" [label="<id>\n(<path>)", fillcolor="<color>", style="filled,rounded"];
StyledLine(ref, color) == Line("node", color, ref.ID, ref.Path, <<>>)

\* "<from>" -> "<to>" [style=solid];
EdgeLine(from, to) == Line("edge", "style=solid", from, <<>>, to)

\* the colors map of writeNodes with its default
ColorOf(category) ==
    CASE category = "variable" -> "#FFB6C1"
      [] category = "module" -> "#98FB98"
      [] category = "data" -> "#87CEEB"
      [] category = "resource" -> "#DDA0DD"
      [] category = "output" -> "#FFA07A"
      [] OTHER -> "#DCDCDC"

\* a serializer that renders every node
RenderedKeys_All(nodes) == DOMAIN nodes

\* "if node.Depth == 0" of the three loops over graph.Nodes
RenderedKeys(nodes) == {k \in DOMAIN nodes : nodes[k].Depth = 0}

\* One iteration order of node.References for each rendered node
CategoryOrders(nodes) ==
    {f \in [RenderedKeys(nodes) -> UNION {OrdersOf(DOMAIN nodes[k].References) : k \in RenderedKeys(nodes)}] :
        \A k \in RenderedKeys(nodes) : f[k] \in OrdersOf(DOMAIN nodes[k].References)}

\* the references of a node in the order "for category, refs" then "for _, ref"
\* visits them, each with its category
RefsInOrder(node, categoryOrder) ==
    Flatten([i \in 1..Len(categoryOrder) |->
        [j \in 1..Len(node.References[categoryOrder[i]]) |->
            [category |-> categoryOrder[i], ref |-> node.References[categoryOrder[i]][j]]]])

writeNodeStyles == <<Text("// Node styles"), Text("node [shape=box, style=rounded];")>>

\* Every text writeNodes can produce: one per iteration order of the maps
writeNodes(nodes) ==
    {[i \in 1..Len(ko1) |-> HighlightLine(ko1[i], nodes[ko1[i]].Path)]
        \o <<Text("// Referenced nodes")>>
        \o Flatten([i \in 1..Len(ko2) |->
               LET rs == RefsInOrder(nodes[ko2[i]], co[ko2[i]])
               IN [j \in 1..Len(rs) |-> StyledLine(rs[j].ref, ColorOf(rs[j].category))]])
     : ko1 \in OrdersOf(RenderedKeys(nodes)), ko2 \in OrdersOf(RenderedKeys(nodes)), co \in CategoryOrders(nodes)}

writeDependencies(nodes) ==
    {<<Text("// Dependencies")>>
        \o Flatten([i \in 1..Len(ko) |->
               LET rs == RefsInOrder(nodes[ko[i]], co[ko[i]])
               IN [j \in 1..Len(rs) |-> EdgeLine(rs[j].ref.ID, nodes[ko[i]].ID)]])
     : ko \in OrdersOf(RenderedKeys(nodes)), co \in CategoryOrders(nodes)}

generateDOT(nodes) ==
    {<<Text("digraph terraform {"), Text("rankdir = LR;"), Text("compound = true;")>>
        \o writeNodeStyles \o wn \o wd \o <<Text("}")>>
     : wn \in writeNodes(nodes), wd \in writeDependencies(nodes)}

\* main.go:43-45: any format but "dot"; os.Exit(1)
UnsupportedFormat ==
    /\ pc = "built"
    /\ format # "dot"
    /\ pc' = "exit"
    /\ exitCode' = 1
    /\ last' = "unsupportedFormat"
    /\ UNCHANGED <<inputs, outFile, tooDeep, Nodes, processedNodes, stack, lookups, rawOf>>

\* main.go:41-42, 48, 53: the text is generated and written, and main returns
WriteFileOk ==
    /\ pc = "built"
    /\ format = "dot"
    /\ \E content \in generateDOT(Nodes) : outFile' = content
    /\ pc' = "exit"
    /\ exitCode' = 0
    /\ last' = "writeFileOk"
    /\ UNCHANGED <<inputs, tooDeep, Nodes, processedNodes, stack, lookups, rawOf>>

\* main.go:41-42, 48-52: os.WriteFile returns an error; os.Exit(1)
WriteFileError ==
    /\ pc = "built"
    /\ format = "dot"
    /\ pc' = "exit"
    /\ exitCode' = 1
    /\ last' = "writeFileError"
    /\ UNCHANGED <<inputs, outFile, tooDeep, Nodes, processedNodes, stack, lookups, rawOf>>

Next ==
    \/ MissingArgument
    \/ PathNotExist
    \/ buildDependencyGraph
    \/ TraverseReturn
    \/ TraverseMark
    \/ ModuleFound
    \/ ModuleNotFound
    \/ ModulePanic
    \/ LocateMiss
    \/ LocateFound
    \/ LoopCall
    \/ LoopSkip
    \/ LoopDone
    \/ ProcessModuleBlock
    \/ ModuleRefCall
    \/ ModuleRefSkip
    \/ ModuleRefsDone
    \/ ModuleDirReturn
    \/ UnsupportedFormat
    \/ WriteFileOk
    \/ WriteFileError

Spec == Init /\ [][Next]_vars

\* The traversal is one synchronous call chain: a step that is enabled is taken.
FairSpec == Spec /\ WF_vars(Next)

\* the traversal is over, or main has ended without starting it
Terminated == pc \in {"built", "panic", "exit"}

----------------------------------------------------------------------------
\* Vocabulary of the properties

Built == pc = "built"

Keys == DOMAIN Nodes

DepthZero == {k \in Keys : Nodes[k].Depth = 0}

\* graph keys made by processModuleBlocks: the second segment holds the "/"
Namespaced(id) == Len(id) >= 2 /\ Len(id[2]) > 1

Categories == {"variable", "module", "data", "resource"}

NoDuplicates(s) == \A i, j \in 1..Len(s) : i # j => s[i] # s[j]

\* the elements of s in the order of their first occurrence
RECURSIVE FirstSeen(_, _)
FirstSeen(s, acc) ==
    IF s = <<>> THEN acc
    ELSE FirstSeen(Tail(s), IF Head(s) \in RangeOf(acc) THEN acc ELSE acc \o <<Head(s)>>)

\* every variable traversal written in the configuration, as a reference string
AllRefIDs ==
    UNION {UNION {UNION {{traversalToReference(v) : v \in RangeOf(a.vars)} : a \in RangeOf(b.attrs)}
                  : b \in RangeOf(f.blocks)} : f \in RangeOf(Cfg.files)}

\* every identifier traverseNode can be called with: the target, a reference, or
\* a reference namespaced under the module of a module-shaped one of these
CallUniverse ==
    LET rootIDs == {targetID} \cup AllRefIDs
        moduleIDs == {ModuleIDOf(r) : r \in {x \in rootIDs : HasDotPrefix(x, "module")}}
    IN rootIDs \cup {SprintfSlash(m, r) : m \in moduleIDs, r \in {x \in AllRefIDs : x # <<>>}}

IdAx == Dot(<<"aws_a", "x">>)

IdBy == Dot(<<"aws_b", "y">>)

IdWeb == Dot(<<"aws_instance", "web">>)

IdFoo == Dot(<<"aws_instance", "foo">>)

IdR == Dot(<<"aws_instance", "r">>)

IdModuleNet == Dot(<<"module", "net">>)

IdSubnet == Dot(<<"aws_subnet", "s">>)

IdVarCidr == Dot(<<"var", "cidr">>)

----------------------------------------------------------------------------
\* C1: traversal terminates for every configuration and maxDepth: the run reaches
\* its end, the visited set only grows, every traverseNode call that passes the
\* guard adds an identifier that was not yet in it, and every identifier passed to
\* traverseNode comes from the finite set of the target, the written references
\* and their module-namespaced forms.
C1_Terminates ==
    /\ <>Terminated
    /\ [][/\ processedNodes \subseteq processedNodes'
          /\ (AtTop("traverseNode", "guard") /\ Len(stack') >= Len(stack))
                => (Top.id \notin processedNodes /\ processedNodes' = processedNodes \cup {Top.id})]_vars
    /\ [](\A i \in 1..Len(stack) : stack[i].kind = "traverseNode" => stack[i].id \in CallUniverse)

C1_Witness ==
    /\ Built
    /\ Cfg = SelfModuleConfig
    /\ SprintfSlash(Dot(<<"module", "self">>), Dot(<<"module", "self">>)) \in processedNodes

\* C2: with A and B referencing each other, A the target and maxDepth >= 2, the
\* final graph holds exactly A at depth 0 and B at depth 1, and the call that meets
\* A again from B changes neither the graph nor the visited set.
C2_Cycle ==
    /\ []((Built /\ Cfg = CycleConfig /\ targetID = IdAx /\ maxDepth >= 2)
            => (Keys = {IdAx, IdBy} /\ Nodes[IdAx].Depth = 0 /\ Nodes[IdBy].Depth = 1
                /\ Nodes[IdAx].ID = IdAx /\ Nodes[IdBy].ID = IdBy))
    /\ [][(Cfg = CycleConfig /\ targetID = IdAx /\ maxDepth >= 2
           /\ AtTop("traverseNode", "guard") /\ Top.id = IdAx /\ Top.depth > 0)
            => UNCHANGED <<Nodes, processedNodes>>]_vars

C2_Witness ==
    /\ Cfg = CycleConfig /\ targetID = IdAx /\ maxDepth >= 2
    /\ last = "returnVisited"
    /\ Keys = {IdAx, IdBy}

\* the target has the module-reference shape and the Module Resolver resolves it
TargetModuleResolves ==
    HasDotPrefix(targetID, "module") /\ findModuleNode(basePath, ModuleIDOf(targetID)).outcome = "found"

TargetLocated == findResourceNode(basePath, targetID).found

C4_DepthZeroOnlyRoot ==
    (Built /\ maxDepth = 0) => Keys \subseteq {targetID}

\* C5: a traverseNode call on an identifier that is already in the visited set
\* returns at once: graph and visited set stay as they are and no Locator or
\* Module Resolver lookup is made.
C5_RevisitNoop ==
    [][(AtTop("traverseNode", "guard") /\ Top.id \in processedNodes)
        => (Nodes' = Nodes /\ processedNodes' = processedNodes /\ lookups' = lookups
            /\ stack' = Front(stack))]_vars

C5_Witness ==
    /\ last = "returnVisited"
    /\ Keys # {}
    /\ lookups > 0

\* C6 as stated: every reference identifier is cut to its first two segments, so
\* the expression aws_instance.foo.id in aws_instance.web leads, with maxDepth >= 1,
\* to a node for the declared resource aws_instance.foo at depth 1.
C6_Truncated ==
    /\ \A k \in Keys : \A c \in DOMAIN Nodes[k].References :
          \A i \in 1..Len(Nodes[k].References[c]) : Len(Nodes[k].References[c][i].ID) = 2
    /\ (Built /\ Cfg = AttrConfig /\ targetID = IdWeb /\ maxDepth >= 1)
          => (IdFoo \in Keys /\ Nodes[IdFoo].Depth = 1)

\* the raw reference strings of graph key k that fall into category c
RawOfCategory(k, c) == SelectSeq(rawOf[k], LAMBDA r : Len(r) >= 2 /\ Classify(r[1]) = c)

\* C7: in every node of the graph and every category the reference identifiers are
\* pairwise distinct and stand in the order of their first occurrence.
C7_UniqueRefs ==
    \A k \in Keys : \A c \in Categories \cup DOMAIN Nodes[k].References :
        /\ NoDuplicates(RefIDs(RefsOf(Nodes[k].References, c)))
        /\ RefIDs(RefsOf(Nodes[k].References, c)) = FirstSeen(RawOfCategory(k, c), <<>>)

C7_Witness ==
    /\ Built
    /\ \E k \in Keys : \E c \in DOMAIN Nodes[k].References :
          Len(RawOfCategory(k, c)) > Len(Nodes[k].References[c])

CategoryOfPrefix(seg) ==
    IF seg = <<"var">> THEN "variable"
    ELSE IF seg = <<"module">> THEN "module"
    ELSE IF seg = <<"data">> THEN "data"
    ELSE "resource"

\* C8: a reference is filed by its first segment alone (var, module, data, anything
\* else as resource); a single-segment token is in no category, every longer one is
\* in exactly its category, and no category other than the four exists.
C8_Classification ==
    \A k \in Keys :
        /\ DOMAIN Nodes[k].References \subseteq Categories
        /\ \A c \in DOMAIN Nodes[k].References : \A i \in 1..Len(Nodes[k].References[c]) :
              /\ Len(Nodes[k].References[c][i].ID) >= 2
              /\ c = CategoryOfPrefix(Nodes[k].References[c][i].ID[1])
        /\ \A r \in RangeOf(rawOf[k]) :
              IF Len(r) >= 2
              THEN r \in RangeOf(RefIDs(RefsOf(Nodes[k].References, CategoryOfPrefix(r[1]))))
              ELSE \A c \in DOMAIN Nodes[k].References : r \notin RangeOf(RefIDs(Nodes[k].References[c]))

C8_Witness ==
    /\ Built
    /\ IdWeb \in Keys
    /\ Dot(<<"foo">>) \in RangeOf(rawOf[IdWeb])
    /\ {Dot(<<"local", "x">>), Dot(<<"each", "value">>)}
          \subseteq RangeOf(RefIDs(RefsOf(Nodes[IdWeb].References, "resource")))
    /\ Dot(<<"var", "m", "k">>) \in RangeOf(RefIDs(RefsOf(Nodes[IdWeb].References, "variable")))

\* C9 as stated: R references module.net, whose source ./modules/net holds
\* aws_subnet.s; with maxDepth >= 1 the graph holds R at depth 0, module.net at
\* depth 0 and the namespaced subnet at depth 1, keeping its var.cidr reference.
C9_ModuleScenario ==
    (Built /\ Cfg = ModuleConfig /\ targetID = IdR /\ maxDepth >= 1)
        => /\ {IdR, IdModuleNet, SprintfSlash(IdModuleNet, IdSubnet)} \subseteq Keys
           /\ Nodes[IdR].Depth = 0
           /\ Nodes[IdModuleNet].Depth = 0
           /\ Nodes[SprintfSlash(IdModuleNet, IdSubnet)].Depth = 1
           /\ IdVarCidr \in RangeOf(RefIDs(RefsOf(Nodes[SprintfSlash(IdModuleNet, IdSubnet)].References, "variable")))

\* C10 as stated: with module calls whose source is not usable the traversal never
\* crashes and runs to completion, and no module-internal node enters the graph.
C10_UnusableSource ==
    Cfg = BadSourceConfig =>
        /\ pc # "panic"
        /\ \A k \in Keys : ~Namespaced(k)
        /\ (Built /\ targetID = Dot(<<"aws_a", "ok">>) /\ maxDepth >= 1)
              => {Dot(<<"module", "reg">>), Dot(<<"module", "gone">>), Dot(<<"module", "nosrc">>)} \subseteq Keys

IdR3 == Dot(<<"aws_instance", "r3">>)

IdVpc == Dot(<<"aws_vpc", "v">>)

\* C11 as stated: a node recorded under an identifier is never replaced and keeps
\* the depth of its first registration, also when its module is reached again
\* through a second reference such as module.net.b after module.net.a.
C11_FirstDiscoveryWins ==
    [][\A k \in Keys : k \in DOMAIN Nodes' /\ Nodes'[k].Depth = Nodes[k].Depth]_vars

\* the identifiers of a node's references that the loops recurse into
ExpandedRefIDs(node) ==
    {r \in UNION {RangeOf(RefIDs(node.References[c])) : c \in DOMAIN node.References} : ~IsTerminalRef(r)}

\* the Locator finds a declaration for id below the base directory
Located(id) == findResourceNode(basePath, id).found

\* a lookup of id comes back empty: a Locator miss (no declaration, or only in a
\* file that fails to parse) or a module call that does not resolve
Unresolved(id) ==
    \/ ~Located(id)
    \/ HasDotPrefix(id, "module") /\ Len(id) >= 2 /\ findModuleNode(basePath, ModuleIDOf(id)).outcome # "found"

Written == outFile # NoFile

\* the number of lines of the output file that satisfy Test
CountLines(Test(_)) == Cardinality({i \in 1..Len(outFile) : Test(outFile[i])})

\* the (node, category, reference) triples of the depth-0 nodes
RootReferences ==
    UNION {UNION {{[key |-> k, category |-> c, ref |-> Nodes[k].References[c][j]]
                      : j \in 1..Len(Nodes[k].References[c])}
                  : c \in DOMAIN Nodes[k].References} : k \in DepthZero}

IdWeb3 == Dot(<<"aws_instance", "web3">>)

IdVarAmi == Dot(<<"var", "ami">>)

IdAmiLatest == Dot(<<"data", "aws_ami", "latest">>)

\* C13: the written text holds exactly one red node line per depth-0 node and, per
\* reference of a depth-0 node, exactly one node line filled with the colour of its
\* category and exactly one solid edge from the reference to that node; nothing
\* else is drawn, so nodes of depth > 0 and their references leave no line.  For
\* aws_instance.web3 referencing var.ami and data.aws_ami.latest: one red line, a
\* pink and a sky-blue node line and two edges into aws_instance.web3.
C13_Serializer ==
    Written =>
        /\ \A k \in DepthZero : CountLines(LAMBDA l : l = HighlightLine(k, Nodes[k].Path)) = 1
        /\ CountLines(LAMBDA l : l.kind = "node" /\ l.text = "color=red") = Cardinality(DepthZero)
        /\ \A t \in RootReferences :
              /\ CountLines(LAMBDA l : l = StyledLine(t.ref, ColorOf(t.category))) = 1
              /\ CountLines(LAMBDA l : l = EdgeLine(t.ref.ID, Nodes[t.key].ID)) = 1
        /\ CountLines(LAMBDA l : l.kind = "node" /\ l.text # "color=red") = Cardinality(RootReferences)
        /\ CountLines(LAMBDA l : l.kind = "edge") = Cardinality(RootReferences)
        /\ (Cfg = AttrConfig /\ targetID = IdWeb3) =>
              /\ CountLines(LAMBDA l : l.kind = "node" /\ l.text = "color=red" /\ l.id = IdWeb3) = 1
              /\ CountLines(LAMBDA l : l.kind = "node" /\ l.text = "#FFB6C1" /\ l.id = IdVarAmi) = 1
              /\ CountLines(LAMBDA l : l.kind = "node" /\ l.text = "#87CEEB" /\ l.id = IdAmiLatest) = 1
              /\ CountLines(LAMBDA l : l.kind = "node") = 3
              /\ CountLines(LAMBDA l : l.kind = "edge" /\ l.to = IdWeb3 /\ l.id \in {IdVarAmi, IdAmiLatest}) = 2
              /\ CountLines(LAMBDA l : l.kind = "edge") = 2

\* aws_instance.web3 is rendered while data.aws_ami.latest, recorded at depth 1
\* with a reference of its own, is in the graph
C13_Witness ==
    /\ Written
    /\ Cfg = AttrConfig
    /\ targetID = IdWeb3
    /\ IdAmiLatest \in Keys
    /\ Nodes[IdAmiLatest].Depth = 1
    /\ DOMAIN Nodes[IdAmiLatest].References # {}

\* the process has ended
Ended == pc \in {"exit", "panic"}

\* C14 as stated: the process ends with exit code 1 and no output file when a
\* required argument is missing, the input path does not exist or the format is not
\* "dot", with exit code 1 when writing fails, and in every other case with the
\* diagram written and exit code 0.
C14_ProcessOutcome ==
    Ended =>
        IF ArgumentMissing \/ pathArg = "absent" \/ format # "dot"
        THEN exitCode = 1 /\ ~Written
        ELSE IF last = "writeFileError"
        THEN exitCode = 1
        ELSE exitCode = 0 /\ Written

\* C15 as stated: the directory a traverseModuleDirectory activation scans is the
\* directory the Module Resolver found to exist for its caller, for every base
\* directory.
C15_BaseAppliedOnce ==
    \A i \in 2..Len(stack) :
        stack[i].kind = "traverseModuleDirectory"
            => stack[i].base = findModuleNode(stack[i - 1].base, stack[i].id).path

\* file lies directly in the base directory, not in a directory below it
InBaseDirectory(file) == file.abs = basePath.abs /\ Front(file.segs) = basePath.segs

\* C16 as stated: a declaration written in a child module directory is recorded
\* only under its namespaced key, so every node under a bare identifier is declared
\* in the base directory itself, and a lookup of aws_subnet.s, declared only in
\* modules/net, leaves the graph empty.
C16_NamespacedOnly ==
    /\ \A k \in Keys : ~Namespaced(k) => InBaseDirectory(Nodes[k].Path)
    /\ (Built /\ Cfg = ModuleConfig /\ targetID = IdSubnet) => Keys = {}

\* id is a "var." or "local." reference, bare or namespaced under a module
TerminalShaped(id) ==
    \/ HasDotPrefix(id, "var")
    \/ HasDotPrefix(id, "local")
    \/ Len(id) >= 3 /\ Namespaced(id) /\ id[2][2] \in {"var", "local"}

IdLocalX == Dot(<<"local", "x">>)

\* C17: no traverseNode activation below the root call is for a "var." or "local."
\* reference, no such identifier is in the visited set or a key of the graph, and
\* every "var." reference string of a recorded declaration is in the variable
\* category of its node.
C17_TerminalRefs ==
    /\ \A i \in 2..Len(stack) : stack[i].kind = "traverseNode" => ~TerminalShaped(stack[i].id)
    /\ \A id \in (processedNodes \cup Keys) \ {targetID} : ~TerminalShaped(id)
    /\ \A k \in Keys : \A i \in 1..Len(rawOf[k]) :
          HasDotPrefix(rawOf[k][i], "var")
              => rawOf[k][i] \in RangeOf(RefIDs(RefsOf(Nodes[k].References, "variable")))

\* aws_instance.web, which references var.ami and local.x, has been expanded
C17_Witness ==
    /\ Built
    /\ Cfg = AttrConfig
    /\ targetID = IdWeb
    /\ maxDepth >= 1
    /\ IdWeb \in Keys
    /\ IdLocalX \in RangeOf(rawOf[IdWeb])
    /\ IdVarAmi \in RangeOf(RefIDs(RefsOf(Nodes[IdWeb].References, "variable")))

IdDa == Dot(<<"aws_d", "a">>)

IdDc == Dot(<<"aws_d", "c">>)

IdDd == Dot(<<"aws_d", "d">>)

\* C18: a traverseNode call at a depth above maxDepth leaves the visited set, the
\* graph and the lookup count as they are; a call at an allowed depth leaves its
\* identifier in the visited set, and a lookup is only made for an identifier that
\* is already in it; so an identifier turned away for its depth and reached again
\* at an allowed depth is in the graph at the end when the Locator finds it.
C18_GuardBeforeMark ==
    /\ [][(AtTop("traverseNode", "guard") /\ Top.depth > maxDepth)
            => (processedNodes' = processedNodes /\ lookups' = lookups /\ Nodes' = Nodes)]_vars
    /\ [][(AtTop("traverseNode", "guard") /\ Top.depth <= maxDepth)
            => (Top.id \in processedNodes' /\ lookups' = lookups)]_vars
    /\ [][lookups' # lookups => Top.id \in processedNodes]_vars
    /\ [](Built => \A id \in tooDeep \cap processedNodes : Located(id) => id \in Keys)

\* aws_d.c was turned away at depth 2 below aws_d.b and then recorded at depth 1
C18_Witness ==
    /\ Built
    /\ Cfg = DiamondConfig
    /\ maxDepth = 1
    /\ IdDc \in tooDeep
    /\ IdDc \in Keys
    /\ Nodes[IdDc].Depth = 1

\* the configuration declares no module call
ModuleFree == \A i \in 1..Len(Cfg.files) : \A j \in 1..Len(Cfg.files[i].blocks) : Cfg.files[i].blocks[j].type # "module"

\* the key set of the graph with the depth of each node
GraphDepths == [k \in Keys |-> Nodes[k].Depth]

\* The references of a located block when the attribute map is iterated in the
\* order written and the categories in the order variable, module, data, resource
FixedOrderRefs(block, file) ==
    LET refs == extractReferences(block, file, [i \in 1..Len(block.attrs) |-> i])
        order == SelectSeq(<<"variable", "module", "data", "resource">>, LAMBDA c : c \in DOMAIN refs)
    IN Flatten([i \in 1..Len(order) |-> RefIDs(refs[order[i]])])

\* The run of traverseNode over the references todo, one after the other at one
\* depth, with every map iterated in that fixed order; st holds the depths of the
\* recorded nodes and the visited set.  For configurations without module calls.
RECURSIVE FixedOrderRun(_, _, _)
FixedOrderRun(st, todo, depth) ==
    IF todo = <<>> THEN st
    ELSE IF (depth > 0 /\ IsTerminalRef(Head(todo))) \/ depth > maxDepth \/ Head(todo) \in st.visited
    THEN FixedOrderRun(st, Tail(todo), depth)
    ELSE Bind(findResourceNode(basePath, Head(todo)), LAMBDA r :
            Bind([st EXCEPT !.visited = @ \cup {Head(todo)}], LAMBDA marked :
                IF ~r.found THEN FixedOrderRun(marked, Tail(todo), depth)
                ELSE Bind(FixedOrderRun([marked EXCEPT !.depths = MapPut(@, Head(todo), depth)],
                                        FixedOrderRefs(r.block, r.file), depth + 1),
                          LAMBDA after : FixedOrderRun(after, Tail(todo), depth))))

\* C19 as stated: the final graph does not depend on the order in which the maps
\* are iterated: whatever orders a run takes, its key set and depths are those of
\* the run that iterates every map in one fixed order.  Stated for the
\* configurations without module calls.
C19_Deterministic ==
    (Built /\ ModuleFree)
        => GraphDepths = FixedOrderRun([depths |-> <<>>, visited |-> {}], <<targetID>>, 0).depths

\* the references written in the declaration the Locator finds for id that a
\* traversal follows and the Locator finds in turn
FoundReferences(id) ==
    LET r == findResourceNode(basePath, id)
    IN {x \in RangeOf(RawRefs(r.block, [i \in 1..Len(r.block.attrs) |-> i])) :
            Len(x) >= 2 /\ ~IsTerminalRef(x) /\ Located(x)}

\* the declarations reachable from the target by a chain of at most n such references
RECURSIVE Reachable(_)
Reachable(n) ==
    IF n = 0 THEN {id \in {targetID} : Located(id)}
    ELSE Bind(Reachable(n - 1), LAMBDA prev : prev \cup UNION {FoundReferences(id) : id \in prev})

\* C20 as stated: at the end of a run every declaration reachable from the target
\* by a chain of at most maxDepth references, each found by the Locator, is in the
\* graph.
C20_CompleteWithinDepth == Built => Reachable(maxDepth) \subseteq Keys

\* C21: every node under a bare key, recorded by traverseNode, has a depth in
\* 0..maxDepth, and every node under a namespaced key, registered by
\* processModuleBlocks, has a depth in 1..maxDepth + 1.
C21_DepthBounds ==
    \A k \in Keys :
        IF Namespaced(k)
        THEN 1 <= Nodes[k].Depth /\ Nodes[k].Depth <= maxDepth + 1
        ELSE 0 <= Nodes[k].Depth /\ Nodes[k].Depth <= maxDepth

\* module.net was expanded at depth maxDepth: its node sits at maxDepth and its
\* declarations at maxDepth + 1
C21_Witness ==
    /\ Built
    /\ Cfg = ModuleConfig
    /\ targetID = IdR
    /\ maxDepth >= 1
    /\ IdModuleNet \in Keys
    /\ Nodes[IdModuleNet].Depth = maxDepth
    /\ SprintfSlash(IdModuleNet, IdSubnet) \in Keys
    /\ Nodes[SprintfSlash(IdModuleNet, IdSubnet)].Depth = maxDepth + 1

IdR2 == Dot(<<"aws_instance", "r2">>)

IdModuleNetId == Dot(<<"module", "net", "id">>)

\* C22 as stated: every node is stored under its own ID, also the module-call
\* node recorded for module.net.id, so in the written text every edge ends at the
\* name of a red node line.
C22_KeyIsID ==
    /\ \A k \in Keys : Nodes[k].ID = k
    /\ Written => \A i \in 1..Len(outFile) :
          outFile[i].kind = "edge"
              => \E j \in 1..Len(outFile) :
                    /\ outFile[j].kind = "node"
                    /\ outFile[j].text = "color=red"
                    /\ outFile[j].id = outFile[i].to

\* C23 as stated: a module reference expanded at depth d leaves the module-call
\* node at depth d, each declaration of the module directory is registered at
\* depth d + 1, and traverseNode is called for a reference of such a declaration
\* at depth d + 2.
C23_ModuleDepths ==
    /\ [][(AtTop("traverseNode", "module") /\ Len(stack') > Len(stack))
            => (Nodes'[Top.id].Depth = Top.depth /\ stack'[Len(stack')].depth = Top.depth)]_vars
    /\ [][(AtTop("traverseModuleDirectory", "blocks") /\ Nodes' # Nodes)
            => Nodes'[SprintfSlash(Top.id, getBlockID(Head(Top.blocks).block))].Depth = Top.depth + 1]_vars
    /\ [][(AtTop("traverseModuleDirectory", "refs") /\ Len(stack') > Len(stack))
            => stack'[Len(stack')].depth = Top.depth + 2]_vars

DeclarationTypes == {"resource", "module", "data", "output"}

\* The positions <<file, block>> of the declarations of id in the files discovered
\* below dir, the files that fail to parse left out
Declarations(dir, id) ==
    LET files == findTerraformFiles(dir)
    IN {p \in UNION {{<<i, j>> : j \in 1..Len(files[i].blocks)} : i \in 1..Len(files)} :
            /\ files[p[1]].parseOk
            /\ files[p[1]].blocks[p[2]].type \in DeclarationTypes
            /\ getBlockID(files[p[1]].blocks[p[2]]) = id}

\* the first of a set of positions, by file and then by block
FirstPosition(ps) ==
    CHOOSE p \in ps : \A q \in ps : p[1] < q[1] \/ (p[1] = q[1] /\ p[2] <= q[2])

\* what the claim has the Locator return for id below dir
FirstDeclaration(dir, id) ==
    LET files == findTerraformFiles(dir)
        ps == Declarations(dir, id)
    IN IF ps = {} THEN NotFound
       ELSE [found |-> TRUE,
             block |-> files[FirstPosition(ps)[1]].blocks[FirstPosition(ps)[2]],
             file |-> FilePath(files[FirstPosition(ps)[1]])]

IdXDup == Dot(<<"aws_x", "dup">>)

IdXOnly == Dot(<<"aws_x", "only">>)

\* C24 as stated: for every identifier traverseNode looks up, the Locator returns
\* the first declaration of it in discovery order among the files that parse, with
\* that file's path, and nothing when there is none; so the node recorded under a
\* located identifier has the type and path of that declaration, and a target
\* declared in a file that parses is in the final graph.
C24_FirstDeclaration ==
    /\ \A i \in 1..Len(stack) :
          stack[i].kind = "traverseNode"
              => findResourceNode(stack[i].base, stack[i].id) = FirstDeclaration(stack[i].base, stack[i].id)
    /\ \A k \in Keys : (~Namespaced(k) /\ Nodes[k].ID = k) =>
          /\ FirstDeclaration(basePath, k).found
          /\ Nodes[k].Type = FirstDeclaration(basePath, k).block.type
          /\ Nodes[k].Path = FirstDeclaration(basePath, k).file
    /\ (Built /\ FirstDeclaration(basePath, targetID).found) => targetID \in Keys

\* the activation on top is a traverseNode call on a namespaced identifier
NamespacedCall == pc = "traverse" /\ stack # <<>> /\ Top.kind = "traverseNode" /\ Namespaced(Top.id)

\* C25: a traverseNode call on a namespaced identifier module.<m>/<ref> takes the
\* module branch, where the name looked for is <m>/<first segment of ref> and no
\* module resolves, and then misses in the Locator; no step of it changes the
\* graph, starts a further call or ends the run, and the visited set gains at
\* most its identifier.
C25_NamespacedCallIsInert ==
    /\ [][NamespacedCall
            => /\ Nodes' = Nodes
               /\ Len(stack') <= Len(stack)
               /\ pc' # "panic"
               /\ processedNodes' \subseteq processedNodes \cup {Top.id}
               /\ (Top.at = "guard" /\ Len(stack') = Len(stack)) => stack'[Len(stack')].at = "module"]_vars
    /\ [](\A i \in 1..Len(stack) : (stack[i].kind = "traverseNode" /\ Namespaced(stack[i].id)) =>
            /\ i = Len(stack)
            /\ HasDotPrefix(stack[i].id, "module")
            /\ findModuleNode(stack[i].base, <<<<"module">>, stack[i].id[2]>>).outcome = "none"
            /\ ~findResourceNode(stack[i].base, stack[i].id).found)

\* the call for the reference of aws_subnet.s to aws_vpc.v inside module net has
\* been made: its identifier is visited and the graph holds no node for it
C25_Witness ==
    /\ Built
    /\ Cfg = ModuleConfig
    /\ targetID = IdModuleNet
    /\ SprintfSlash(IdModuleNet, IdVpc) \in processedNodes
    /\ SprintfSlash(IdModuleNet, IdVpc) \in Keys
    /\ DOMAIN Nodes[SprintfSlash(IdModuleNet, IdVpc)].References = {}

====
